---- MODULE Spec2Model ----
(***************************************************************************)
(* Model of backend/preprocessing.py: the module-level load of the         *)
(* stopword set and the text-normalisation functions built on regular      *)
(* expression substitutions.  A text is a sequence of one-character        *)
(* strings; every substitution is computed character by character, the     *)
(* way re.sub scans: leftmost match first, matches taken on the original   *)
(* string, no overlap.                                                     *)
(***************************************************************************)
EXTENDS Integers, Sequences, FiniteSets, TLC

(* ------------------------------------------------------------------ *)
(* Characters                                                          *)
(* ------------------------------------------------------------------ *)

Uppers == <<"A","B","C","D","E","F","G","H","I","J","K","L","M",
            "N","O","P","Q","R","S","T","U","V","W","X","Y","Z">>

Lowers == <<"a","b","c","d","e","f","g","h","i","j","k","l","m",
            "n","o","p","q","r","s","t","u","v","w","x","y","z">>

UpperSet == {Uppers[i] : i \in 1..Len(Uppers)}

LowerSet == {Lowers[i] : i \in 1..Len(Lowers)}

Digits == {"0","1","2","3","4","5","6","7","8","9"}

\* The characters the regular expressions' \s matches.
IsSpace(c) == c \in {" ", "\t", "\n", "\r"}

\* [a-zA-Z]
IsAsciiLetter(c) == c \in LowerSet \/ c \in UpperSet

\* The characters \w matches (\b is a change of IsWordChar between neighbours).
IsWordChar(c) == IsAsciiLetter(c) \/ c \in Digits \/ c = "_"

\* str.lower() on one character.
LowerChar(c) ==
    IF c \in UpperSet THEN Lowers[CHOOSE i \in 1..Len(Uppers) : Uppers[i] = c] ELSE c

\* str.lower()
Lower(s) == [i \in 1..Len(s) |-> LowerChar(s[i])]

\* Whether the literal lit stands in s at position i (case-sensitive).
StartsAt(s, i, lit) ==
    /\ i >= 1
    /\ i + Len(lit) - 1 <= Len(s)
    /\ \A j \in 1..Len(lit) : s[i + j - 1] = lit[j]

\* The same under re.IGNORECASE.
StartsAtIgnoreCase(s, i, lit) ==
    /\ i >= 1
    /\ i + Len(lit) - 1 <= Len(s)
    /\ \A j \in 1..Len(lit) : LowerChar(s[i + j - 1]) = LowerChar(lit[j])

\* \b between positions i-1 and i of s.
WordBoundary(s, i) ==
    LET before == i >= 2 /\ i - 1 <= Len(s) /\ IsWordChar(s[i - 1])
        after  == i >= 1 /\ i <= Len(s) /\ IsWordChar(s[i])
    IN  before # after

\* Last position of the run of non-whitespace characters that starts at i (\S+, greedy).
RECURSIVE NonSpaceRunEnd(_, _)
NonSpaceRunEnd(s, i) ==
    IF i + 1 <= Len(s) /\ ~IsSpace(s[i + 1]) THEN NonSpaceRunEnd(s, i + 1) ELSE i

\* Last position of the run of whitespace characters that starts at i (\s+, greedy).
RECURSIVE SpaceRunEnd(_, _)
SpaceRunEnd(s, i) ==
    IF i + 1 <= Len(s) /\ IsSpace(s[i + 1]) THEN SpaceRunEnd(s, i + 1) ELSE i

(* ------------------------------------------------------------------ *)
(* basic_clean                                                         *)
(* ------------------------------------------------------------------ *)

Http == <<"h","t","t","p">>

Www == <<"w","w","w">>

Https == <<"h","t","t","p","s">>

\* One alternative of the URL pattern, lit\S+, tried at position i: the end of the
\* match, or 0.
LitThenNonSpace(s, i, lit) ==
    IF StartsAt(s, i, lit) /\ i + Len(lit) <= Len(s) /\ ~IsSpace(s[i + Len(lit)])
    THEN NonSpaceRunEnd(s, i + Len(lit))
    ELSE 0

\* http\S+|www\S+|https\S+ tried at position i, the alternatives in the order written.
UrlMatchEnd(s, i) ==
    IF LitThenNonSpace(s, i, Http) > 0 THEN LitThenNonSpace(s, i, Http)
    ELSE IF LitThenNonSpace(s, i, Www) > 0 THEN LitThenNonSpace(s, i, Www)
    ELSE LitThenNonSpace(s, i, Https)

\* re.sub(r"http\S+|www\S+|https\S+", " ", text), from position i on.
RECURSIVE SubUrl(_, _)
SubUrl(s, i) ==
    IF i > Len(s) THEN <<>>
    ELSE LET e == UrlMatchEnd(s, i)
         IN  IF e > 0 THEN <<" ">> \o SubUrl(s, e + 1)
             ELSE <<s[i]>> \o SubUrl(s, i + 1)

\* The first ">" at or after position j that "." can reach (no newline on the way), or 0.
RECURSIVE TagClose(_, _)
TagClose(s, j) ==
    IF j > Len(s) THEN 0
    ELSE IF s[j] = ">" THEN j
    ELSE IF s[j] = "\n" THEN 0
    ELSE TagClose(s, j + 1)

\* re.sub(r"<.*?>", " ", text), from position i on.
RECURSIVE SubTag(_, _)
SubTag(s, i) ==
    IF i > Len(s) THEN <<>>
    ELSE LET e == IF s[i] = "<" THEN TagClose(s, i + 1) ELSE 0
         IN  IF e > 0 THEN <<" ">> \o SubTag(s, e + 1)
             ELSE <<s[i]>> \o SubTag(s, i + 1)

\* A variant that lets digits through, as the pattern [^a-zA-Z0-9\s] would.
SubNonAlphaKeepDigits(s) ==
    [i \in 1..Len(s) |->
        IF IsAsciiLetter(s[i]) \/ s[i] \in Digits \/ IsSpace(s[i]) THEN s[i] ELSE " "]

\* re.sub(r"[^a-zA-Z\s]", " ", text)
SubNonAlpha(s) ==
    [i \in 1..Len(s) |-> IF IsAsciiLetter(s[i]) \/ IsSpace(s[i]) THEN s[i] ELSE " "]

\* re.sub(r"\s+", " ", text), from position i on.
RECURSIVE SubSpaces(_, _)
SubSpaces(s, i) ==
    IF i > Len(s) THEN <<>>
    ELSE IF IsSpace(s[i]) THEN <<" ">> \o SubSpaces(s, SpaceRunEnd(s, i) + 1)
    ELSE <<s[i]>> \o SubSpaces(s, i + 1)

\* str.strip()
RECURSIVE Strip(_)
Strip(s) ==
    IF s = <<>> THEN s
    ELSE IF IsSpace(s[1]) THEN Strip(Tail(s))
    ELSE IF IsSpace(s[Len(s)]) THEN Strip(SubSeq(s, 1, Len(s) - 1))
    ELSE s

\* re.sub(r"\s+", " ", text).strip()
NormalizeSpaces(s) == Strip(SubSpaces(s, 1))

\* basic_clean on a string: the five steps in order.
BasicCleanStr(s) == NormalizeSpaces(SubNonAlpha(SubTag(SubUrl(Lower(s), 1), 1)))

(* ------------------------------------------------------------------ *)
(* remove_stopwords                                                    *)
(* ------------------------------------------------------------------ *)

\* str.split(): the maximal runs of non-whitespace characters, in order.
RECURSIVE Split(_, _)
Split(s, i) ==
    IF i > Len(s) THEN <<>>
    ELSE IF IsSpace(s[i]) THEN Split(s, i + 1)
    ELSE LET e == NonSpaceRunEnd(s, i)
         IN  <<SubSeq(s, i, e)>> \o Split(s, e + 1)

\* " ".join(words)
RECURSIVE Join(_)
Join(words) ==
    IF words = <<>> THEN <<>>
    ELSE IF Len(words) = 1 THEN words[1]
    ELSE words[1] \o <<" ">> \o Join(Tail(words))

\* [word for word in words if word not in stop]
RECURSIVE FilterOut(_, _)
FilterOut(words, drop) ==
    IF words = <<>> THEN <<>>
    ELSE IF words[1] \in drop THEN FilterOut(Tail(words), drop)
    ELSE <<words[1]>> \o FilterOut(Tail(words), drop)

\* remove_stopwords on a string, with the stopword set stop.
RemoveStopwordsStr(s, stop) ==
    IF s = <<>> THEN <<>> ELSE Join(FilterOut(Split(s, 1), stop))

(* ------------------------------------------------------------------ *)
(* remove_leakage_words                                                *)
(* ------------------------------------------------------------------ *)

\* A variant of the list with every longer phrase ahead of the words it shares.
leakage_words_longest_first == <<
    <<"w","a","s","h","i","n","g","t","o","n"," ","r","e","u","t","e","r","s">>,
    <<"r","e","u","t","e","r","s">>,
    <<"g","e","t","t","y"," ","i","m","a","g","e","s">>,
    <<"g","e","t","t","y">>,
    <<"f","e","a","t","u","r","e","d"," ","i","m","a","g","e">>,
    <<"i","m","a","g","e">>,
    <<"f","e","a","t","u","r","e","d">>,
    <<"t","w","i","t","t","e","r"," ","c","o","m">>,
    <<"p","i","c"," ","t","w","i","t","t","e","r">>,
    <<"t","w","i","t","t","e","r">>,
    <<"b","r","e","i","t","b","a","r","t">>,
    <<"s","a","i","d">>,
    <<"m","r">>,
    <<"m","s">> >>

leakage_words == <<
    <<"r","e","u","t","e","r","s">>,
    <<"w","a","s","h","i","n","g","t","o","n"," ","r","e","u","t","e","r","s">>,
    <<"g","e","t","t","y">>,
    <<"g","e","t","t","y"," ","i","m","a","g","e","s">>,
    <<"i","m","a","g","e">>,
    <<"f","e","a","t","u","r","e","d"," ","i","m","a","g","e">>,
    <<"f","e","a","t","u","r","e","d">>,
    <<"t","w","i","t","t","e","r">>,
    <<"t","w","i","t","t","e","r"," ","c","o","m">>,
    <<"b","r","e","i","t","b","a","r","t">>,
    <<"p","i","c"," ","t","w","i","t","t","e","r">>,
    <<"s","a","i","d">>,
    <<"m","r">>,
    <<"m","s">> >>

TagReuters == <<"(","r","e","u","t","e","r","s",")">>

TagAp == <<"(","a","p",")">>

\* \((reuters|ap)\) tried at position i under IGNORECASE: the end of the tag, or 0.
TagEnd(s, i) ==
    IF StartsAtIgnoreCase(s, i, TagReuters) THEN i + Len(TagReuters) - 1
    ELSE IF StartsAtIgnoreCase(s, i, TagAp) THEN i + Len(TagAp) - 1
    ELSE 0

\* A variant that is greedy, as .*- would be: the last "-" that "." can reach, or 0.
RECURSIVE GreedyToHyphen(_, _)
GreedyToHyphen(s, j) ==
    IF j > Len(s) THEN 0
    ELSE IF s[j] = "\n" THEN 0
    ELSE LET later == GreedyToHyphen(s, j + 1)
         IN  IF later > 0 THEN later ELSE IF s[j] = "-" THEN j ELSE 0

\* .*?- from position j: the first "-" that "." can reach (no newline on the way), or 0.
RECURSIVE LazyToHyphen(_, _)
LazyToHyphen(s, j) ==
    IF j > Len(s) THEN 0
    ELSE IF s[j] = "-" THEN j
    ELSE IF s[j] = "\n" THEN 0
    ELSE LazyToHyphen(s, j + 1)

\* ^.*?\((reuters|ap)\).*?- with the lazy prefix tried from length i-1 upward: the
\* end of the match, or 0.  The prefix grows one character at a time and "." does
\* not match a newline.
RECURSIVE CitationMatchEnd(_, _)
CitationMatchEnd(s, i) ==
    IF i > Len(s) THEN 0
    ELSE LET t == TagEnd(s, i)
             h == IF t > 0 THEN LazyToHyphen(s, t + 1) ELSE 0
         IN  IF h > 0 THEN h
             ELSE IF s[i] = "\n" THEN 0
             ELSE CitationMatchEnd(s, i + 1)

\* re.sub(r'^.*?\((reuters|ap)\).*?-', '', text, flags=re.IGNORECASE)
StripCitation(s) ==
    LET e == CitationMatchEnd(s, 1)
    IN  IF e > 0 THEN SubSeq(s, e + 1, Len(s)) ELSE s

\* A variant without the closing \b.
PhraseAtNoEndBoundary(s, i, word) ==
    /\ StartsAtIgnoreCase(s, i, word)
    /\ WordBoundary(s, i)

\* A variant without the opening \b.
PhraseAtNoStartBoundary(s, i, word) ==
    /\ StartsAtIgnoreCase(s, i, word)
    /\ WordBoundary(s, i + Len(word))

\* \bword\b tried at position i under IGNORECASE.
PhraseAt(s, i, word) ==
    /\ StartsAtIgnoreCase(s, i, word)
    /\ WordBoundary(s, i)
    /\ WordBoundary(s, i + Len(word))

\* re.sub(fr'\b{word}\b', '', text, flags=re.IGNORECASE), from position i on.
RECURSIVE SubPhrase(_, _, _)
SubPhrase(s, i, word) ==
    IF i > Len(s) THEN <<>>
    ELSE IF PhraseAt(s, i, word) THEN SubPhrase(s, i + Len(word), word)
    ELSE <<s[i]>> \o SubPhrase(s, i + 1, word)

\* The passes k..last of the loop over leakage_words, each on what the one before left.
RECURSIVE RemovePhrasesRange(_, _, _)
RemovePhrasesRange(s, k, last) ==
    IF k > last THEN s
    ELSE RemovePhrasesRange(SubPhrase(s, 1, leakage_words[k]), k + 1, last)

\* The loop over leakage_words from phrase k on.
RemovePhrasesFrom(s, k) == RemovePhrasesRange(s, k, Len(leakage_words))

\* remove_leakage_words on a string.
RemoveLeakageStr(s) ==
    IF s = <<>> THEN <<>>
    ELSE NormalizeSpaces(RemovePhrasesFrom(StripCitation(s), 1))

\* preprocess_text on a non-empty string, with the stopword set stop.
PreprocessStr(s, stop) == RemoveLeakageStr(RemoveStopwordsStr(BasicCleanStr(s), stop))

(* ------------------------------------------------------------------ *)
(* Values of the dynamically typed callers                             *)
(* ------------------------------------------------------------------ *)

\* A value: its type, its characters (a string's text, a number's digits, a bool's
\* name) and, for a list, its elements (each a [t, s] record).
Str(s) == [t |-> "str", s |-> s, items |-> <<>>]

NoneV == [t |-> "NoneType", s |-> <<>>, items |-> <<>>]

IntV(d) == [t |-> "int", s |-> <<d>>, items |-> <<>>]

BoolV(b) == [t |-> "bool", s |-> <<IF b THEN "True" ELSE "False">>, items |-> <<>>]

ListV(items) == [t |-> "list", s |-> <<>>, items |-> items]

Item(v) == [t |-> v.t, s |-> v.s]

\* A list element as a value.
Val(it) == [t |-> it.t, s |-> it.s, items |-> <<>>]

\* bool(v): the truth value "not text" negates.
Truthy(v) ==
    CASE v.t = "str" -> v.s # <<>>
      [] v.t = "int" -> v.s # <<"0">>
      [] v.t = "bool" -> v.s = <<"True">>
      [] v.t = "list" -> v.items # <<>>
      [] OTHER -> FALSE

\* isinstance(v, str)
IsStr(v) == v.t = "str"

\* What a call ends with: a returned value, or the exception it raised.
Returns(v) == [exc |-> "", val |-> v]

Raises(e) == [exc |-> e, val |-> NoneV]

\* The elements "for text in texts" visits: a list's elements, a string's characters.
Elements(v) ==
    IF v.t = "list" THEN v.items
    ELSE [i \in 1..Len(v.s) |-> [t |-> "str", s |-> <<v.s[i]>>]]

IsIterable(v) == v.t \in {"list", "str"}

(* ------------------------------------------------------------------ *)
(* The functions, each run alone from call to return                   *)
(* ------------------------------------------------------------------ *)

basic_clean(v) ==
    IF ~IsStr(v) THEN Returns(Str(<<>>)) ELSE Returns(Str(BasicCleanStr(v.s)))

remove_stopwords(v, stop) ==
    IF ~Truthy(v) THEN Returns(Str(<<>>))
    ELSE IF ~IsStr(v) THEN Raises("AttributeError")
    ELSE Returns(Str(RemoveStopwordsStr(v.s, stop)))

remove_leakage_words(v) ==
    IF ~Truthy(v) THEN Returns(Str(<<>>))
    ELSE IF ~IsStr(v) THEN Raises("TypeError")
    ELSE Returns(Str(RemoveLeakageStr(v.s)))

preprocess_text(v, stop) ==
    IF ~Truthy(v) \/ ~IsStr(v) THEN Returns(Str(<<>>))
    ELSE Returns(Str(PreprocessStr(v.s, stop)))

combine_title_content(title, content) ==
    LET a == IF IsStr(title) THEN title.s ELSE <<>>
        b == IF IsStr(content) THEN content.s ELSE <<>>
    IN  Returns(Str(Strip(a \o <<" ">> \o b)))

preprocess_batch(v, stop) ==
    IF ~Truthy(v) THEN Returns(ListV(<<>>))
    ELSE IF ~IsIterable(v) THEN Raises("TypeError")
    ELSE Returns(ListV([i \in 1..Len(Elements(v)) |->
                          Item(preprocess_text(Val(Elements(v)[i]), stop).val)]))

DefaultMinLength == 20

validate_input_text(v, min_length) ==
    IF ~Truthy(v) \/ ~IsStr(v) THEN Returns(BoolV(FALSE))
    ELSE IF Len(Strip(v.s)) < min_length THEN Returns(BoolV(FALSE))
    ELSE Returns(BoolV(TRUE))

(* ------------------------------------------------------------------ *)
(* State                                                               *)
(* ------------------------------------------------------------------ *)

VARIABLES
    initPc,       \* where the module-level code (lines 7-11) stands
    resource,     \* the stopword corpus on disk: "present", "missing", "unreadable"
    loads,        \* calls of stopwords.words("english") so far
    fetches,      \* calls of nltk.download("stopwords") so far
    firstLoad,    \* how the first load ended: "none", "ok", "missing", "error"
    fetched,      \* what the download returned: "none", "installed", "failed"
    stopDefined,  \* whether the name STOP_WORDS is bound
    STOP_WORDS,   \* the module-level stopword set
    pc,           \* per thread: where its call stands
    call,         \* per thread: the function called and its arguments
    text,         \* per thread: the local variable text
    k,            \* per thread: the index of the loop over leakage_words
    idx,          \* per thread: the index of the list comprehension of preprocess_batch
    out,          \* per thread: the list the comprehension has built so far
    result        \* per thread: what the call ended with

initVars == <<initPc, resource, loads, fetches, firstLoad, fetched, stopDefined, STOP_WORDS>>

threadVars == <<pc, call, text, k, idx, out, result>>

vars == <<initPc, resource, loads, fetches, firstLoad, fetched, stopDefined, STOP_WORDS,
          pc, call, text, k, idx, out, result>>

Threads == {"t1", "t2"}

\* The words stopwords.words("english") yields: a part of the corpus list, one entry
\* with an apostrophe among them.
StopwordsResource == {
    <<"t","h","e">>, <<"a">>, <<"i","s">>, <<"s">>, <<"t">>, <<"t","o">>,
    <<"d","o","n","'","t">> }

Call(op, arg, arg2, min_length) ==
    [op |-> op, arg |-> arg, arg2 |-> arg2, min_length |-> min_length]

NoCall == Call("none", NoneV, NoneV, 0)

NoResult == Raises("pending")

Init ==
    /\ initPc = "start"
    /\ resource \in {"present", "missing", "unreadable"}
    /\ loads = 0
    /\ fetches = 0
    /\ firstLoad = "none"
    /\ fetched = "none"
    /\ stopDefined = FALSE
    /\ STOP_WORDS = {}
    /\ pc = [t \in Threads |-> "idle"]
    /\ call = [t \in Threads |-> NoCall]
    /\ text = [t \in Threads |-> <<>>]
    /\ k = [t \in Threads |-> 0]
    /\ idx = [t \in Threads |-> 0]
    /\ out = [t \in Threads |-> <<>>]
    /\ result = [t \in Threads |-> NoResult]

(* ------------------------------------------------------------------ *)
(* Module initialisation (lines 7-11)                                  *)
(* ------------------------------------------------------------------ *)

\* try: STOP_WORDS = set(stopwords.words("english"))
LoadStopwords ==
    /\ initPc = "start"
    /\ loads' = loads + 1
    /\ IF resource = "present"
       THEN /\ STOP_WORDS' = StopwordsResource
            /\ stopDefined' = TRUE
            /\ firstLoad' = "ok"
            /\ initPc' = "ready"
       ELSE /\ UNCHANGED <<STOP_WORDS, stopDefined>>
            /\ firstLoad' = IF resource = "missing" THEN "missing" ELSE "error"
            \* LookupError enters the except clause; any other error leaves the module
            /\ initPc' = IF resource = "missing" THEN "except" ELSE "failed"
    /\ UNCHANGED <<resource, fetches, fetched>>
    /\ UNCHANGED threadVars

\* except LookupError: nltk.download("stopwords"), which reports its outcome by
\* its return value, and the code drops that value.
Download ==
    /\ initPc = "except"
    /\ fetches' = fetches + 1
    /\ \E outcome \in {"installed", "failed"} :
          /\ fetched' = outcome
          /\ resource' = IF outcome = "installed" THEN "present" ELSE resource
    /\ initPc' = "retry"
    /\ UNCHANGED <<loads, firstLoad, stopDefined, STOP_WORDS>>
    /\ UNCHANGED threadVars

\* A variant of the except clause that downloads and does not load again.
RetryLoadOmitted ==
    /\ initPc = "retry"
    /\ initPc' = "ready"
    /\ UNCHANGED <<resource, loads, fetches, firstLoad, fetched, stopDefined, STOP_WORDS>>
    /\ UNCHANGED threadVars

\* STOP_WORDS = set(stopwords.words("english")) in the except clause.
RetryLoad ==
    /\ initPc = "retry"
    /\ loads' = loads + 1
    /\ IF resource = "present"
       THEN /\ STOP_WORDS' = StopwordsResource
            /\ stopDefined' = TRUE
            /\ initPc' = "ready"
       ELSE /\ UNCHANGED <<STOP_WORDS, stopDefined>>
            /\ initPc' = "failed"
    /\ UNCHANGED <<resource, fetches, firstLoad, fetched>>
    /\ UNCHANGED threadVars

(* ------------------------------------------------------------------ *)
(* Calls                                                               *)
(* ------------------------------------------------------------------ *)

\* The thread-local variables of t after a step.
Step(t, p, tx, kk, ii, oo, rr) ==
    /\ pc' = [pc EXCEPT ![t] = p]
    /\ text' = [text EXCEPT ![t] = tx]
    /\ k' = [k EXCEPT ![t] = kk]
    /\ idx' = [idx EXCEPT ![t] = ii]
    /\ out' = [out EXCEPT ![t] = oo]
    /\ result' = [result EXCEPT ![t] = rr]

\* The call of t ends with r.
Finish(t, r) == Step(t, "done", <<>>, 0, 0, <<>>, r)

\* The call of t goes on at p with text tx.
Goto(t, p, tx) == Step(t, p, tx, 0, idx[t], out[t], result[t])

\* The pipeline of preprocess_text returns the string s to whoever called it: the
\* caller of preprocess_text, or the comprehension of preprocess_batch.
ReturnText(t, s) ==
    IF call[t].op = "preprocess_batch"
    THEN Step(t, "item", <<>>, 0, idx[t] + 1, Append(out[t], [t |-> "str", s |-> s]), result[t])
    ELSE Finish(t, Returns(Str(s)))

\* Thread t enters the function c.op with the arguments of c: the guards of the
\* function, and the functions that touch no module state run to their return.
Dispatch(t, c) ==
    /\ call' = [call EXCEPT ![t] = c]
    /\ CASE c.op = "basic_clean" -> Finish(t, basic_clean(c.arg))
         [] c.op = "combine_title_content" -> Finish(t, combine_title_content(c.arg, c.arg2))
         [] c.op = "validate_input_text" -> Finish(t, validate_input_text(c.arg, c.min_length))
         [] c.op = "remove_stopwords" ->
               IF ~Truthy(c.arg) THEN Finish(t, Returns(Str(<<>>)))
               ELSE IF ~IsStr(c.arg) THEN Finish(t, Raises("AttributeError"))
               ELSE Goto(t, "stop", c.arg.s)
         [] c.op = "remove_leakage_words" ->
               IF ~Truthy(c.arg) THEN Finish(t, Returns(Str(<<>>)))
               ELSE IF ~IsStr(c.arg) THEN Finish(t, Raises("TypeError"))
               ELSE Goto(t, "cite", c.arg.s)
         [] c.op = "preprocess_text" ->
               IF ~Truthy(c.arg) \/ ~IsStr(c.arg) THEN Finish(t, Returns(Str(<<>>)))
               ELSE Goto(t, "clean", c.arg.s)
         [] c.op = "preprocess_batch" ->
               IF ~Truthy(c.arg) THEN Finish(t, Returns(ListV(<<>>)))
               ELSE IF ~IsIterable(c.arg) THEN Finish(t, Raises("TypeError"))
               ELSE Step(t, "item", <<>>, 0, 1, <<>>, result[t])
    /\ UNCHANGED initVars

\* text = basic_clean(text) inside preprocess_text.
BasicClean(t) ==
    /\ pc[t] = "clean"
    /\ Goto(t, "stop", basic_clean(Str(text[t])).val.s)
    /\ UNCHANGED <<call, initVars>>

\* A variant that remembers the words it met by adding them to the module-level set.
RemoveStopwordsCaching(t) ==
    /\ pc[t] = "stop"
    /\ IF call[t].op = "remove_stopwords"
       THEN Finish(t, remove_stopwords(Str(text[t]), STOP_WORDS))
       ELSE Goto(t, "cite", remove_stopwords(Str(text[t]), STOP_WORDS).val.s)
    /\ STOP_WORDS' = STOP_WORDS \cup {w \in {Split(text[t], 1)[i] : i \in 1..Len(Split(text[t], 1))} : Len(w) = 1}
    /\ UNCHANGED <<call, initPc, resource, loads, fetches, firstLoad, fetched, stopDefined>>

\* remove_stopwords(text): reads the module-level STOP_WORDS.
RemoveStopwords(t) ==
    /\ pc[t] = "stop"
    /\ IF ~stopDefined
       THEN Finish(t, Raises("NameError"))
       ELSE IF call[t].op = "remove_stopwords"
       THEN Finish(t, remove_stopwords(Str(text[t]), STOP_WORDS))
       ELSE Goto(t, "cite", remove_stopwords(Str(text[t]), STOP_WORDS).val.s)
    /\ UNCHANGED <<call, initVars>>

\* remove_leakage_words up to the loop: its guard, then the citation substitution.
StripCitationStep(t) ==
    /\ pc[t] = "cite"
    /\ IF text[t] = <<>>
       THEN ReturnText(t, <<>>)
       ELSE Step(t, "phrase", StripCitation(text[t]), 1, idx[t], out[t], result[t])
    /\ UNCHANGED <<call, initVars>>

\* One pass of "for word in leakage_words".
RemovePhrase(t) ==
    /\ pc[t] = "phrase"
    /\ Step(t, IF k[t] = Len(leakage_words) THEN "collapse" ELSE "phrase",
            SubPhrase(text[t], 1, leakage_words[k[t]]),
            IF k[t] = Len(leakage_words) THEN 0 ELSE k[t] + 1,
            idx[t], out[t], result[t])
    /\ UNCHANGED <<call, initVars>>

\* return re.sub(r"\s+", " ", text).strip()
Collapse(t) ==
    /\ pc[t] = "collapse"
    /\ ReturnText(t, NormalizeSpaces(text[t]))
    /\ UNCHANGED <<call, initVars>>

\* A variant that leaves out the elements preprocess_text has no text for.
BatchNextSkipping(t) ==
    /\ pc[t] = "item"
    /\ LET elems == Elements(call[t].arg)
       IN  IF idx[t] > Len(elems)
           THEN Finish(t, Returns(ListV(out[t])))
           ELSE IF ~Truthy(Val(elems[idx[t]])) \/ ~IsStr(Val(elems[idx[t]]))
           THEN Step(t, "item", <<>>, 0, idx[t] + 1, out[t], result[t])
           ELSE Goto(t, "clean", elems[idx[t]].s)
    /\ UNCHANGED <<call, initVars>>

\* The comprehension of preprocess_batch: the next element enters preprocess_text,
\* or the list is returned.
BatchNext(t) ==
    /\ pc[t] = "item"
    /\ LET elems == Elements(call[t].arg)
       IN  IF idx[t] > Len(elems)
           THEN Finish(t, Returns(ListV(out[t])))
           ELSE IF ~Truthy(Val(elems[idx[t]])) \/ ~IsStr(Val(elems[idx[t]]))
           THEN ReturnText(t, <<>>)
           ELSE Goto(t, "clean", elems[idx[t]].s)
    /\ UNCHANGED <<call, initVars>>

(* ------------------------------------------------------------------ *)
(* Callers                                                             *)
(* ------------------------------------------------------------------ *)

Ops == {"basic_clean", "remove_stopwords", "remove_leakage_words", "preprocess_text",
        "combine_title_content", "preprocess_batch", "validate_input_text"}

SampleText == <<"T","h","e"," ","M","r"," ","x">>

SampleCited == <<"a"," ","(","A","P",")"," ","-"," ","s","a","i","d"," ","y">>

ShortMinLength == 3

\* The arguments the concurrent callers pass: strings, the empty string, and values
\* that are not strings, falsy and truthy.
SampleArgs == {
    NoneV, IntV("0"), IntV("5"), Str(<<>>), Str(SampleText),
    ListV(<<>>), ListV(<<Item(Str(SampleCited)), Item(IntV("5"))>>) }

SampleCalls ==
    {Call(op, a, NoneV, DefaultMinLength) : op \in Ops, a \in SampleArgs}
    \cup {Call("combine_title_content", a, Str(<<"B">>), DefaultMinLength) : a \in SampleArgs}
    \cup {Call("validate_input_text", a, NoneV, ShortMinLength) : a \in SampleArgs}

\* A thread calls a function of the module, which exists once the module is loaded.
Begin(t) ==
    /\ initPc = "ready"
    /\ pc[t] = "idle"
    /\ \E c \in SampleCalls : Dispatch(t, c)

Next ==
    \/ LoadStopwords
    \/ Download
    \/ RetryLoad
    \/ \E t \in Threads : Begin(t)
    \/ \E t \in Threads : BasicClean(t)
    \/ \E t \in Threads : RemoveStopwords(t)
    \/ \E t \in Threads : StripCitationStep(t)
    \/ \E t \in Threads : RemovePhrase(t)
    \/ \E t \in Threads : Collapse(t)
    \/ \E t \in Threads : BatchNext(t)

Spec == Init /\ [][Next]_vars

(* ------------------------------------------------------------------ *)
(* One caller, inputs drawn from bounded sets                          *)
(* ------------------------------------------------------------------ *)

\* The longest text is MaxFrags fragments long; the longest list has MaxBatch elements.
MaxFrags == 3

MaxBatch == 2

\* What raw article text is made of, for preprocess_text.
PipelineFrags == <<
    <<"T","h","e">>, <<" ">>, <<"h","t","t","p">>, <<"<">>, <<">">>, <<"1">>,
    <<"s","a","i","d">>, <<"(","A","P",")">>, <<"-">>, <<"g","e","t","t","y">>,
    <<"\n">>, <<"i","m","a","g","e","s">> >>

\* What text handed to remove_leakage_words directly is made of.
LeakageFrags == <<
    <<"(","A","P",")">>, <<"-">>, <<"\n">>, <<" ">>, <<"g","e","t","t","y">>,
    <<"i","m","a","g","e","s">>, <<"M","r">>, <<"x">>,
    <<"(","r","e","u","t","e","r","s",")">>, <<"_">> >>

RECURSIVE Concat(_, _)
Concat(frags, ix) ==
    IF ix = <<>> THEN <<>> ELSE frags[ix[1]] \o Concat(frags, Tail(ix))

\* Every text of at most n fragments.
TextsOver(frags, n) ==
    {Concat(frags, ix) : ix \in UNION {[1..m -> 1..Len(frags)] : m \in 0..n}}

\* The documented scenarios: a cited sentence, and a text with a URL and tags.
CitationClause ==
    <<"W","A","S","H","I","N","G","T","O","N"," ","(","R","e","u","t","e","r","s",")",
      " ","-"," ">>

Sentence ==
    <<"T","h","e"," ","p","r","e","s","i","d","e","n","t"," ",
      "s","a","i","d"," ","t","o","d","a","y",".">>

CitedSentence == CitationClause \o Sentence

VisitUrl ==
    <<"V","i","s","i","t"," ","h","t","t","p",":","/","/","x",".","c","o","m"," ",
      "<","b",">","n","o","w","<","/","b",">","!","!">>

BatchItems == <<
    Item(NoneV), Item(IntV("5")), Item(Str(<<>>)),
    Item(Str(<<"T","h","e"," ","x","-","1">>)),
    Item(Str(<<"s","a","i","d"," ","<","b",">","y"," ","z">>)) >>

\* Every list of at most n elements.
ListsOver(items, n) ==
    {ListV([i \in DOMAIN ix |-> items[ix[i]]]) :
        ix \in UNION {[1..m -> 1..Len(items)] : m \in 0..n}}

TextCalls ==
    {Call("preprocess_text", Str(s), NoneV, DefaultMinLength) :
        s \in TextsOver(PipelineFrags, MaxFrags) \cup {CitedSentence, VisitUrl}}
    \cup {Call("preprocess_text", v, NoneV, DefaultMinLength) :
            v \in {NoneV, IntV("0"), IntV("5"), ListV(<<Item(Str(<<"x">>))>>)}}
    \cup {Call("remove_leakage_words", Str(s), NoneV, DefaultMinLength) :
            s \in TextsOver(LeakageFrags, MaxFrags) \cup {CitedSentence}}
    \cup {Call("preprocess_batch", v, NoneV, DefaultMinLength) :
            v \in ListsOver(BatchItems, MaxBatch) \cup {NoneV, IntV("0"), Str(<<>>)}}

\* The module has been loaded; one thread is about to call.
InitText ==
    /\ initPc = "ready"
    /\ resource = "present"
    /\ loads = 1
    /\ fetches = 0
    /\ firstLoad = "ok"
    /\ fetched = "none"
    /\ stopDefined = TRUE
    /\ STOP_WORDS = StopwordsResource
    /\ pc = [t \in Threads |-> "idle"]
    /\ call = [t \in Threads |-> NoCall]
    /\ text = [t \in Threads |-> <<>>]
    /\ k = [t \in Threads |-> 0]
    /\ idx = [t \in Threads |-> 0]
    /\ out = [t \in Threads |-> <<>>]
    /\ result = [t \in Threads |-> NoResult]

BeginText ==
    /\ initPc = "ready"
    /\ pc["t1"] = "idle"
    /\ \E c \in TextCalls : Dispatch("t1", c)

NextText ==
    \/ BeginText
    \/ \E t \in Threads : BasicClean(t)
    \/ \E t \in Threads : RemoveStopwords(t)
    \/ \E t \in Threads : StripCitationStep(t)
    \/ \E t \in Threads : RemovePhrase(t)
    \/ \E t \in Threads : Collapse(t)
    \/ \E t \in Threads : BatchNext(t)

SpecText == InitText /\ [][NextText]_vars

(* ------------------------------------------------------------------ *)
(* Properties                                                          *)
(* ------------------------------------------------------------------ *)

\* Thread t has returned from (or raised in) a call of op.
Ended(t, op) == pc[t] = "done" /\ call[t].op = op

\* The whole call c run alone, with the stopword set stop.
RunAlone(c, stop) ==
    CASE c.op = "basic_clean" -> basic_clean(c.arg)
      [] c.op = "remove_stopwords" -> remove_stopwords(c.arg, stop)
      [] c.op = "remove_leakage_words" -> remove_leakage_words(c.arg)
      [] c.op = "preprocess_text" -> preprocess_text(c.arg, stop)
      [] c.op = "combine_title_content" -> combine_title_content(c.arg, c.arg2)
      [] c.op = "preprocess_batch" -> preprocess_batch(c.arg, stop)
      [] c.op = "validate_input_text" -> validate_input_text(c.arg, c.min_length)

\* Only a-z and single spaces, none leading, none trailing.
LowercaseSingleSpaced(s) ==
    /\ \A i \in 1..Len(s) : s[i] \in LowerSet \/ s[i] = " "
    /\ s # <<>> => s[1] # " " /\ s[Len(s)] # " "
    /\ \A i \in 1..(Len(s) - 1) : ~(s[i] = " " /\ s[i + 1] = " ")

\* The words of s, as a set.
WordsOf(s) == {Split(s, 1)[i] : i \in 1..Len(Split(s, 1))}

\* No whole-word occurrence of word in s, in any letter case.
NoOccurrence(s, word) == \A i \in 1..Len(s) : ~PhraseAt(s, i, word)

\* The phrases of the list that are made of several words, and the single words.
MultiWordIndexes == {j \in 1..Len(leakage_words) :
                        \E i \in 1..Len(leakage_words[j]) : leakage_words[j][i] = " "}

SingleLeakageWords == {leakage_words[j] : j \in (1..Len(leakage_words)) \ MultiWordIndexes}

W_reuters == <<"r","e","u","t","e","r","s">>

W_washington == <<"w","a","s","h","i","n","g","t","o","n">>

W_said == <<"s","a","i","d">>

GettyImages == <<"g","e","t","t","y"," ","i","m","a","g","e","s">>

\* C1: whatever preprocess_text is given (a string, the empty string, a value that
\* is no string), it returns the empty string or a string of lowercase letters a-z
\* and single spaces with no space at either end.
C1_OutputShape ==
    \A t \in Threads :
        Ended(t, "preprocess_text") =>
            /\ result[t].exc = ""
            /\ result[t].val.t = "str"
            /\ LowercaseSingleSpaced(result[t].val.s)

\* preprocess_text has returned a non-empty text for an input with capitals, a URL,
\* a tag and punctuation.
C1_Witness ==
    /\ Ended("t1", "preprocess_text")
    /\ call["t1"].arg = Str(VisitUrl)
    /\ result["t1"] = Returns(Str(<<"v","i","s","i","t"," ","n","o","w">>))

\* C2: preprocess_text applied to its own result returns that result.
C2_Idempotent ==
    \A t \in Threads :
        Ended(t, "preprocess_text") =>
            preprocess_text(result[t].val, STOP_WORDS) = result[t]

\* preprocess_text has returned a non-empty text that differs from its input.
C2_Witness ==
    /\ Ended("t1", "preprocess_text")
    /\ call["t1"].arg = Str(<<"s","a","i","d","-","i","m","a","g","e","s">>)
    /\ result["t1"] = Returns(Str(<<"i","m","a","g","e","s">>))

\* C3: no call with a value that is no string, or with an empty value, ends in an
\* exception.
C3_NoException ==
    \A t \in Threads :
        (pc[t] = "done" /\ (~IsStr(call[t].arg) \/ ~Truthy(call[t].arg))) =>
            result[t].exc = ""

\* C4: when the first load finds the resource missing there is one download and one
\* more load; initialisation fails only when the download failed, and otherwise
\* binds STOP_WORDS; calls begin only once it is bound and never meet it unbound.
C4_LoadRetriedOnce ==
    /\ fetches <= 1
    /\ loads <= 2
    /\ (firstLoad = "missing" /\ initPc \in {"ready", "failed"}) =>
            /\ fetches = 1
            /\ loads = 2
            /\ (initPc = "failed") = (fetched = "failed")
    /\ firstLoad # "missing" => fetches = 0
    /\ initPc = "ready" => stopDefined /\ STOP_WORDS = StopwordsResource
    /\ \A t \in Threads :
        /\ pc[t] # "idle" => initPc = "ready" /\ stopDefined
        /\ result[t].exc \notin {"NameError", "LookupError"}

\* The resource was missing, was downloaded, and a call that reads the stopword set
\* has returned.
C4_Witness ==
    /\ firstLoad = "missing"
    /\ fetched = "installed"
    /\ initPc = "ready"
    /\ Ended("t1", "remove_stopwords")
    /\ call["t1"].arg = Str(SampleText)
    /\ result["t1"] = Returns(Str(<<"T","h","e"," ","M","r"," ","x">>))

\* C5: for the text that begins with the clause "WASHINGTON (Reuters) - ",
\* preprocess_text returns what it returns for the sentence after the clause, without
\* "said", without "reuters", and without punctuation.
C5_CitationClauseStripped ==
    \A t \in Threads :
        (Ended(t, "preprocess_text") /\ call[t].arg = Str(CitedSentence)) =>
            /\ result[t] = preprocess_text(Str(Sentence), STOP_WORDS)
            /\ WordsOf(result[t].val.s) \cap {W_washington, W_reuters, W_said} = {}
            /\ LowercaseSingleSpaced(result[t].val.s)

\* C6: once the module is loaded the stopword set never changes, and every call,
\* whatever the other thread does meanwhile, ends as it ends when run alone.
C6_NoSharedWrites ==
    /\ initPc = "ready" => STOP_WORDS = StopwordsResource
    /\ \A t \in Threads :
        pc[t] = "done" => result[t] = RunAlone(call[t], StopwordsResource)

\* One thread has returned from preprocess_text while the other is inside the loop
\* of a call of its own.
C6_Witness ==
    /\ Ended("t1", "preprocess_text")
    /\ call["t1"].arg = Str(SampleText)
    /\ result["t1"] = Returns(Str(<<"x">>))
    /\ call["t2"].op = "preprocess_batch"
    /\ pc["t2"] = "phrase"
    /\ idx["t2"] = 1

\* C7: preprocess_batch of a non-empty list returns a list of the same length whose
\* i-th element is preprocess_text of the i-th element; of an empty or falsy value
\* it returns the empty list.
C7_BatchElementwise ==
    \A t \in Threads :
        Ended(t, "preprocess_batch") =>
            /\ (call[t].arg.t = "list" /\ call[t].arg.items # <<>>) =>
                  /\ result[t].exc = ""
                  /\ result[t].val.t = "list"
                  /\ Len(result[t].val.items) = Len(call[t].arg.items)
                  /\ \A i \in 1..Len(call[t].arg.items) :
                        result[t].val.items[i] =
                            Item(preprocess_text(Val(call[t].arg.items[i]), STOP_WORDS).val)
            /\ ~Truthy(call[t].arg) => result[t] = Returns(ListV(<<>>))

\* preprocess_batch has returned for a list of two different texts.
C7_Witness ==
    /\ Ended("t1", "preprocess_batch")
    /\ call["t1"].arg = ListV(<<BatchItems[5], BatchItems[4]>>)
    /\ result["t1"] = Returns(ListV(<<Item(Str(<<"y"," ","z">>)), Item(Str(<<"x">>))>>))

TagAt(s, i) == TagEnd(s, i) > 0

HasTag(s) == \E i \in 1..Len(s) : TagAt(s, i)

\* The end of the first tag of s.
FirstTagEnd(s) == TagEnd(s, CHOOSE i \in 1..Len(s) : TagAt(s, i) /\ \A j \in 1..(i - 1) : ~TagAt(s, j))

\* A hyphen follows the first tag of s.
TagThenHyphen(s) == HasTag(s) /\ \E j \in (FirstTagEnd(s) + 1)..Len(s) : s[j] = "-"

\* The first hyphen after the first tag of s.
HyphenAfterTag(s) ==
    CHOOSE j \in (FirstTagEnd(s) + 1)..Len(s) :
        s[j] = "-" /\ \A m \in (FirstTagEnd(s) + 1)..(j - 1) : s[m] # "-"

\* No line break in s up to position j.
OnFirstLine(s, j) == \A m \in 1..j : s[m] # "\n"

\* C9 as stated: whenever a tag is followed later by a hyphen, the text up to and
\* including the first hyphen after the first tag is deleted before the phrase
\* removals; otherwise the step leaves the text unchanged.
C9_AsClaimed ==
    \A t \in Threads :
        (call[t].op = "remove_leakage_words" /\ pc[t] = "phrase" /\ k[t] = 1) =>
            LET s == call[t].arg.s
            IN  text[t] = IF TagThenHyphen(s)
                          THEN SubSeq(s, HyphenAfterTag(s) + 1, Len(s))
                          ELSE s

\* C9, amended: the deletion happens when, besides, no line break stands before
\* that hyphen; with a line break before it, or with no tag followed by a hyphen,
\* the step leaves the text unchanged.  The phrase removals run on what is left.
C9_FirstLineOnly ==
    \A t \in Threads :
        call[t].op = "remove_leakage_words" =>
            LET s == call[t].arg.s
                stripped == IF TagThenHyphen(s) /\ OnFirstLine(s, HyphenAfterTag(s))
                            THEN SubSeq(s, HyphenAfterTag(s) + 1, Len(s))
                            ELSE s
            IN  /\ (pc[t] = "phrase" /\ k[t] = 1) => text[t] = stripped
                /\ (pc[t] = "done" /\ result[t].exc = "" /\ s # <<>>) =>
                      result[t].val.s = NormalizeSpaces(RemovePhrasesFrom(stripped, 1))

\* The citation step has deleted a prefix that ends at the first of two hyphens.
C9_Witness ==
    /\ call["t1"].op = "remove_leakage_words"
    /\ call["t1"].arg = Str(<<"(","A","P",")","-","-">>)
    /\ pc["t1"] = "phrase"
    /\ k["t1"] = 1
    /\ text["t1"] = <<"-">>

====
